---- MODULE Spec2Model ----
(***************************************************************************)
(* TabsToSpaces: the single-pass byte transducer tabsToSpaces with its     *)
(* output-size estimator and its trailing-whitespace probe.                *)
(*                                                                         *)
(* One behaviour is one call tabsToSpaces(fileContents, config): the       *)
(* configuration check, the allocation of the pre-sized buffer, one step   *)
(* per iteration of the main loop and the final resize.                    *)
(***************************************************************************)
EXTENDS Integers, Sequences, FiniteSets

(***************************************************************************)
(* Bytes the transducer distinguishes.                                     *)
(***************************************************************************)
NUL == 0
TAB == 9
LF == 10
CR == 13
SPACE == 32
DOT == 46

Bytes == {NUL, TAB, LF, CR, SPACE, DOT}

(***************************************************************************)
(* Bounds of the model.                                                    *)
(***************************************************************************)
MaxLen == 4
MaxTabWidth == 4
MaxFairLen == 3
MaxFileLen == 2

RECURSIVE SeqsUpTo(_)
SeqsUpTo(n) ==
    IF n = 0 THEN {<<>>}
    ELSE LET shorter == SeqsUpTo(n - 1)
         IN  shorter \cup {Append(s, b) : s \in {t \in shorter : Len(t) = n - 1}, b \in Bytes}

Inputs == SeqsUpTo(MaxLen)

LineEndingMode == {"Ignore", "Lf", "CrLf"}
WhitespaceBeforeNewLines == {"DoNotTrim", "Trim"}

\* A null char const*, as newlineProbe returns it on a non-space character.
nullptr == -1

VARIABLES
    fileContents,               \* the input bytes
    tabWidth,                   \* config.tabWidth
    lineEndingMode,             \* config.lineEndingMode
    whitespaceBeforeNewLines,   \* config.whitespaceBeforeNewLines
    pc,                         \* "call", "loop", "done" or "threw"
    outputSize,                 \* output.size()
    out,                        \* the bytes written so far: write - output.data() = Len(out)
    read,                       \* read - fileContents.data()
    column,
    hasCr,
    \* processOneFile
    disk,                       \* the bytes stored under filename
    tmp,                        \* the file filename + ".tabs2spaces.tmp"
    stream,                     \* the std::ofstream is open and good
    fpc,                        \* the position in processOneFile, "none" outside it
    \* main
    argv,                       \* argv[1], ..., argv[argc - 1]
    argi,                       \* the loop variable i
    errors,
    directoryWalk,              \* config.directoryWalk
    handled,                    \* what was done for each argument so far
    mpc,                        \* the position in main, "none" outside it
    \* the file-name pattern of tabsToSpaces(path, config)
    pattern,                    \* path.filename()
    entry,                      \* a directory entry: its file name, whether a regular file
    regexString,                \* what convertRegexString returned
    selected,                   \* whether the entry is processed
    anchorInside,               \* the regex library reads an inner $ as an anchor
    gpc                         \* the position in the pattern walk, "none" outside it

fileVars == <<disk, tmp, stream, fpc>>
mainVars == <<argv, argi, errors, directoryWalk, handled, mpc>>
patternVars == <<pattern, entry, regexString, selected, anchorInside, gpc>>
callVars == <<fileContents, pc, outputSize, out, read, column, hasCr>>

vars == <<fileContents, tabWidth, lineEndingMode, whitespaceBeforeNewLines,
          pc, outputSize, out, read, column, hasCr, fileVars, mainVars, patternVars>>

config == <<tabWidth, lineEndingMode, whitespaceBeforeNewLines>>

(***************************************************************************)
(* std::ranges::count                                                      *)
(***************************************************************************)
count(s, b) == Cardinality({i \in DOMAIN s : s[i] = b})

(***************************************************************************)
(* newlineProbe: positions are offsets from fileContents.data(); `to` is   *)
(* the end of the buffer.                                                  *)
(***************************************************************************)
RECURSIVE probeNoCr(_, _, _, _)
probeNoCr(file, from, probeHasCr, mode) ==
    IF from = Len(file) THEN Len(file)
    ELSE LET in == file[from + 1]
         IN  CASE in = SPACE \/ in = TAB -> probeNoCr(file, from + 1, FALSE, mode)
               [] in = LF -> IF probeHasCr /\ mode = "Ignore" THEN from - 1 ELSE from
               [] OTHER -> nullptr

RECURSIVE probeNullAtEnd(_, _, _, _)
probeNullAtEnd(file, from, probeHasCr, mode) ==
    IF from = Len(file) THEN nullptr
    ELSE LET in == file[from + 1]
         IN  CASE in = SPACE \/ in = TAB -> probeNullAtEnd(file, from + 1, FALSE, mode)
               [] in = CR -> probeNullAtEnd(file, from + 1, TRUE, mode)
               [] in = LF -> IF probeHasCr /\ mode = "Ignore" THEN from - 1 ELSE from
               [] OTHER -> nullptr

RECURSIVE probeBeforeLf(_, _, _, _)
probeBeforeLf(file, from, probeHasCr, mode) ==
    IF from = Len(file) THEN Len(file)
    ELSE LET in == file[from + 1]
         IN  CASE in = SPACE \/ in = TAB -> probeBeforeLf(file, from + 1, FALSE, mode)
               [] in = CR -> probeBeforeLf(file, from + 1, TRUE, mode)
               [] in = LF -> from - 1
               [] OTHER -> nullptr

RECURSIVE probePastLf(_, _, _, _)
probePastLf(file, from, probeHasCr, mode) ==
    IF from = Len(file) THEN Len(file)
    ELSE LET in == file[from + 1]
         IN  CASE in = SPACE \/ in = TAB -> probePastLf(file, from + 1, FALSE, mode)
               [] in = CR -> probePastLf(file, from + 1, TRUE, mode)
               [] in = LF -> IF probeHasCr /\ mode = "Ignore" THEN from ELSE from + 1
               [] OTHER -> nullptr

RECURSIVE probeLoop(_, _, _, _)
probeLoop(file, from, probeHasCr, mode) ==
    IF from = Len(file) THEN Len(file)
    ELSE LET in == file[from + 1]
         IN  CASE in = SPACE \/ in = TAB -> probeLoop(file, from + 1, FALSE, mode)
               [] in = CR -> probeLoop(file, from + 1, TRUE, mode)
               [] in = LF -> IF probeHasCr /\ mode = "Ignore" THEN from - 1 ELSE from
               [] OTHER -> nullptr

newlineProbe(file, from, mode) == probeLoop(file, from, FALSE, mode)

(***************************************************************************)
(* estimateOutputSize                                                      *)
(***************************************************************************)
estimateWithoutCr(file, width, mode) ==
    Len(file) + count(file, TAB) * width

estimateOutputSize(file, width, mode) ==
    LET tabSpaceEstimate  == count(file, TAB) * width
        additionalCrCount == count(file, LF)
    IN  Len(file) + tabSpaceEstimate + additionalCrCount

(***************************************************************************)
(* The body of the main loop of tabsToSpaces, one operator per case of the *)
(* switch.  st is the loop state [read, out, column, hasCr] at the top of  *)
(* the iteration; the result is the state at the top of the next one.      *)
(***************************************************************************)
\* for (; column < tabWidth; ++column) *write++ = ' ';
padding(col, width) ==
    [i \in 1..(IF col < width THEN width - col ELSE 0) |-> SPACE]

caseTabFullWidth(file, width, mode, trimming, st) ==
    LET nlPos == newlineProbe(file, st.read, mode)
        cr    == IF mode = "Lf" /\ st.hasCr THEN <<CR>> ELSE <<>>
    IN  IF trimming /\ nlPos # nullptr
        THEN [st EXCEPT !.read = nlPos]
        ELSE [read   |-> st.read + 1,
              out    |-> st.out \o cr \o padding(0, width),
              column |-> 0,
              hasCr  |-> FALSE]

caseTabKeepsHasCr(file, width, mode, trimming, st) ==
    LET nlPos == newlineProbe(file, st.read, mode)
        cr    == IF mode = "Lf" /\ st.hasCr THEN <<CR>> ELSE <<>>
    IN  IF trimming /\ nlPos # nullptr
        THEN [st EXCEPT !.read = nlPos]
        ELSE [read   |-> st.read + 1,
              out    |-> st.out \o cr \o padding(st.column, width),
              column |-> 0,
              hasCr  |-> st.hasCr]

caseTab(file, width, mode, trimming, st) ==
    LET nlPos == newlineProbe(file, st.read, mode)
        cr    == IF mode = "Lf" /\ st.hasCr THEN <<CR>> ELSE <<>>
    IN  IF trimming /\ nlPos # nullptr
        THEN [st EXCEPT !.read = nlPos]
        ELSE [read   |-> st.read + 1,
              out    |-> st.out \o cr \o padding(st.column, width),
              column |-> 0,
              hasCr  |-> FALSE]

caseNewlineKeepCr(file, width, mode, trimming, st) ==
    LET cr == IF (mode = "CrLf" /\ ~st.hasCr) \/ (mode = "Lf" /\ st.hasCr) THEN <<CR>> ELSE <<>>
    IN  [read   |-> st.read + 1,
         out    |-> st.out \o cr \o <<LF>>,
         column |-> 0,
         hasCr  |-> FALSE]

caseNewlineAlwaysCr(file, width, mode, trimming, st) ==
    LET cr == IF mode = "CrLf" THEN <<CR>> ELSE <<>>
    IN  [read   |-> st.read + 1,
         out    |-> st.out \o cr \o <<LF>>,
         column |-> 0,
         hasCr  |-> FALSE]

caseNewline(file, width, mode, trimming, st) ==
    LET cr == IF mode = "CrLf" /\ ~st.hasCr THEN <<CR>> ELSE <<>>
    IN  [read   |-> st.read + 1,
         out    |-> st.out \o cr \o <<LF>>,
         column |-> 0,
         hasCr  |-> FALSE]

caseDefaultDeferAlways(file, width, mode, trimming, st) ==
    LET in      == file[st.read + 1]
        nlPos   == newlineProbe(file, st.read, mode)
        cr      == IF mode = "Lf" /\ st.hasCr THEN <<CR>> ELSE <<>>
        isCr    == in = CR
        byte    == IF ~isCr THEN <<in>> ELSE <<>>
        advance == IF in # NUL /\ in # CR THEN 1 ELSE 0
        col     == st.column + advance
    IN  IF trimming /\ in = SPACE /\ nlPos # nullptr
        THEN [st EXCEPT !.read = nlPos]
        ELSE [read   |-> st.read + 1,
              out    |-> st.out \o cr \o byte,
              column |-> IF col = width THEN 0 ELSE col,
              hasCr  |-> isCr]

caseDefaultNulWidth(file, width, mode, trimming, st) ==
    LET in      == file[st.read + 1]
        nlPos   == newlineProbe(file, st.read, mode)
        cr      == IF mode = "Lf" /\ st.hasCr THEN <<CR>> ELSE <<>>
        isCr    == in = CR
        byte    == IF mode # "Lf" \/ ~isCr THEN <<in>> ELSE <<>>
        advance == IF in # CR THEN 1 ELSE 0
        col     == st.column + advance
    IN  IF trimming /\ in = SPACE /\ nlPos # nullptr
        THEN [st EXCEPT !.read = nlPos]
        ELSE [read   |-> st.read + 1,
              out    |-> st.out \o cr \o byte,
              column |-> IF col = width THEN 0 ELSE col,
              hasCr  |-> isCr]

caseDefault(file, width, mode, trimming, st) ==
    LET in      == file[st.read + 1]
        nlPos   == newlineProbe(file, st.read, mode)
        cr      == IF mode = "Lf" /\ st.hasCr THEN <<CR>> ELSE <<>>
        isCr    == in = CR
        byte    == IF mode # "Lf" \/ ~isCr THEN <<in>> ELSE <<>>
        advance == IF in # NUL /\ in # CR THEN 1 ELSE 0
        col     == st.column + advance
    IN  IF trimming /\ in = SPACE /\ nlPos # nullptr
        THEN [st EXCEPT !.read = nlPos]
        ELSE [read   |-> st.read + 1,
              out    |-> st.out \o cr \o byte,
              column |-> IF col = width THEN 0 ELSE col,
              hasCr  |-> isCr]

iteration(file, width, mode, trimming, st) ==
    LET in == file[st.read + 1]
    IN  CASE in = TAB -> caseTab(file, width, mode, trimming, st)
          [] in = LF  -> caseNewline(file, width, mode, trimming, st)
          [] OTHER    -> caseDefault(file, width, mode, trimming, st)

\* while (read != readEnd) { ... }  output.resize(write - output.data());
RECURSIVE mainLoop(_, _, _, _, _)
mainLoop(file, width, mode, trimming, st) ==
    IF st.read = Len(file) THEN st.out
    ELSE mainLoop(file, width, mode, trimming, iteration(file, width, mode, trimming, st))

loopStart == [read |-> 0, out |-> <<>>, column |-> 0, hasCr |-> FALSE]

\* The value tabsToSpaces returns for a valid configuration.
tabsToSpaces(file, width, mode, trimming) ==
    mainLoop(file, width, mode, trimming, loopStart)

(***************************************************************************)
(* The call as a state machine.                                            *)
(***************************************************************************)
trim == whitespaceBeforeNewLines = "Trim"
lf   == lineEndingMode = "Lf"
crlf == lineEndingMode = "CrLf"

current == [read |-> read, out |-> out, column |-> column, hasCr |-> hasCr]

Store(st) ==
    /\ read' = st.read
    /\ out' = st.out
    /\ column' = st.column
    /\ hasCr' = st.hasCr
    /\ UNCHANGED <<fileContents, config, pc, outputSize, fileVars, mainVars, patternVars>>

\* No file: no temporary file exists.
noFile == [exists |-> FALSE, bytes |-> <<>>]

\* The call is made on bytes already in memory, outside processOneFile.
NoFileInit ==
    /\ disk = <<>>
    /\ tmp = noFile
    /\ stream = FALSE
    /\ fpc = "none"

\* Outside main: no argument list.
NoMainInit ==
    /\ argv = <<>>
    /\ argi = 0
    /\ errors = 0
    /\ directoryWalk = "OneLevel"
    /\ handled = <<>>
    /\ mpc = "none"

\* No file-name pattern is being matched.
NoPatternInit ==
    /\ pattern = <<>>
    /\ entry = [name |-> <<>>, regular |-> FALSE]
    /\ regexString = <<>>
    /\ selected = FALSE
    /\ anchorInside = FALSE
    /\ gpc = "none"

Init ==
    /\ NoFileInit
    /\ NoMainInit
    /\ NoPatternInit
    /\ fileContents \in Inputs
    /\ tabWidth \in 0..MaxTabWidth
    /\ lineEndingMode \in LineEndingMode
    /\ whitespaceBeforeNewLines \in WhitespaceBeforeNewLines
    /\ pc = "call"
    /\ outputSize = 0
    /\ out = <<>>
    /\ read = 0
    /\ column = 0
    /\ hasCr = FALSE

\* if (tabWidth < 1) throw std::invalid_argument(...)
InvalidArgument ==
    /\ pc = "call"
    /\ tabWidth < 1
    /\ pc' = "threw"
    /\ UNCHANGED <<fileContents, config, outputSize, out, read, column, hasCr, fileVars, mainVars, patternVars>>

BeginUnchecked ==
    /\ pc = "call"
    /\ outputSize' = estimateOutputSize(fileContents, tabWidth, lineEndingMode)
    /\ out' = <<>>
    /\ read' = 0
    /\ column' = 0
    /\ hasCr' = FALSE
    /\ pc' = "loop"
    /\ UNCHANGED <<fileContents, config, fileVars, mainVars, patternVars>>

\* std::string output(estimateOutputSize(...), '\0'); write, read, column, hasCr
Begin ==
    /\ pc = "call"
    /\ ~(tabWidth < 1)
    /\ outputSize' = estimateOutputSize(fileContents, tabWidth, lineEndingMode)
    /\ out' = <<>>
    /\ read' = 0
    /\ column' = 0
    /\ hasCr' = FALSE
    /\ pc' = "loop"
    /\ UNCHANGED <<fileContents, config, fileVars, mainVars, patternVars>>

TabCase ==
    /\ pc = "loop"
    /\ read # Len(fileContents)
    /\ fileContents[read + 1] = TAB
    /\ Store(caseTab(fileContents, tabWidth, lineEndingMode, trim, current))

NewlineCase ==
    /\ pc = "loop"
    /\ read # Len(fileContents)
    /\ fileContents[read + 1] = LF
    /\ Store(caseNewline(fileContents, tabWidth, lineEndingMode, trim, current))

DefaultCase ==
    /\ pc = "loop"
    /\ read # Len(fileContents)
    /\ fileContents[read + 1] \notin {TAB, LF}
    /\ Store(caseDefault(fileContents, tabWidth, lineEndingMode, trim, current))

\* output.resize(write - output.data()); return output;
Return ==
    /\ pc = "loop"
    /\ read = Len(fileContents)
    /\ outputSize' = Len(out)
    /\ pc' = "done"
    /\ UNCHANGED <<fileContents, config, out, read, column, hasCr, fileVars, mainVars, patternVars>>

Next ==
    \/ InvalidArgument
    \/ Begin
    \/ TabCase
    \/ NewlineCase
    \/ DefaultCase
    \/ Return

Spec == Init /\ [][Next]_vars

\* The call runs to its end: it is synchronous and nothing suspends it.
FairInit ==
    /\ Init
    /\ Len(fileContents) <= MaxFairLen

FairSpec == FairInit /\ [][Next]_vars /\ WF_vars(Next)

TypeOK ==
    /\ fileContents \in Inputs
    /\ tabWidth \in 0..MaxTabWidth
    /\ pc \in {"call", "loop", "done", "threw"}
    /\ read \in 0..Len(fileContents)
    /\ hasCr \in BOOLEAN
(***************************************************************************)
(* Vocabulary of the properties.                                           *)
(***************************************************************************)
spaces(n) == [i \in 1..n |-> SPACE]

\* A main-loop iteration is about to consume fileContents[read + 1].
consuming == pc = "loop" /\ read < Len(fileContents)
inByte == fileContents[read + 1]
prevIsCr == read >= 1 /\ fileContents[read] = CR

\* What one step appends to the output.
extends == Len(out') >= Len(out) /\ SubSeq(out', 1, Len(out)) = out
added == SubSeq(out', Len(out) + 1, Len(out'))

lastLf(s) == IF \E i \in DOMAIN s : s[i] = LF
             THEN CHOOSE i \in DOMAIN s : s[i] = LF /\ \A j \in DOMAIN s : s[j] = LF => j <= i
             ELSE 0

\* Bytes of s after its last LF that occupy a column (neither CR nor NUL).
visibleSinceLf(s) == Cardinality({i \in DOMAIN s : i > lastLf(s) /\ s[i] \notin {CR, NUL}})

\* The bound of the estimator, written out.
estimateBound == Len(fileContents) + count(fileContents, TAB) * tabWidth + count(fileContents, LF)

\* A pending CR of the input, flushed ahead of the output of the next byte.
flushedCr == IF prevIsCr THEN <<CR>> ELSE <<>>

\* The output of an expanded tab: between 1 and tabWidth spaces.
isTabExpansion(s) == \E n \in 1..tabWidth : s = spaces(n)

(***************************************************************************)
(* C1: at every iteration of the pass the number of bytes written is at    *)
(* most estimateOutputSize(input) = inputLength + tabCount * tabWidth +    *)
(* lfCount, so the write cursor stays inside the pre-sized buffer and the  *)
(* returned length never exceeds the estimate.                             *)
(***************************************************************************)
C1_WrittenWithinEstimate ==
    /\ pc = "loop" => outputSize = estimateBound /\ Len(out) <= outputSize
    /\ pc = "done" => outputSize = Len(out) /\ Len(out) <= estimateBound

C1_Witness ==
    /\ pc = "done"
    /\ lineEndingMode = "CrLf"
    /\ count(fileContents, LF) = 2
    /\ Len(out) = estimateBound

(***************************************************************************)
(* C2: with trimming off the output holds no tab byte and each input tab   *)
(* is replaced by exactly tabWidth - c spaces, c being the number of       *)
(* output bytes other than CR and NUL since the last written LF, modulo    *)
(* tabWidth; tabWidth 4 maps a lone tab to 4 spaces and a<TAB>b to a, 3    *)
(* spaces, b.                                                              *)
(***************************************************************************)
C2_TabStep ==
    (consuming /\ ~trim /\ inByte = TAB) =>
        LET c == visibleSinceLf(out) % tabWidth
            pending == IF lf THEN flushedCr ELSE <<>>
        IN  /\ tabWidth - c \in 1..tabWidth
            /\ read' = read + 1
            /\ extends
            /\ added = pending \o spaces(tabWidth - c)

C2_Examples ==
    (pc = "done" /\ ~trim /\ tabWidth = 4) =>
        /\ fileContents = <<TAB>> => out = spaces(4)
        /\ fileContents = <<DOT, TAB, DOT>> => out = <<DOT>> \o spaces(3) \o <<DOT>>

C2_TabExpansion ==
    /\ [](~trim => \A i \in DOMAIN out : out[i] # TAB)
    /\ []C2_Examples
    /\ [][C2_TabStep]_vars

C2_Witness ==
    /\ pc = "done"
    /\ ~trim
    /\ tabWidth = 4
    /\ fileContents = <<NUL, DOT, CR, TAB>>
    /\ Len(out) >= 5
    /\ SubSeq(out, Len(out) - 2, Len(out)) = spaces(3)

(***************************************************************************)
(* C3: in Lf mode with trimming off a CR followed by LF produces no output *)
(* byte, a CR followed by any other byte is emitted exactly once, right    *)
(* before the output of that byte, and every input LF is emitted as one LF *)
(* with no CR inserted.                                                    *)
(***************************************************************************)
crNotBeforeLf(s) == {i \in DOMAIN s : s[i] = CR /\ i < Len(s) /\ s[i + 1] # LF}

C3_Step ==
    (consuming /\ lf /\ ~trim) =>
        /\ read' = read + 1
        /\ extends
        /\ inByte = LF => added = <<LF>>
        /\ inByte = CR => added = flushedCr
        /\ inByte = TAB => \E n \in 1..tabWidth : added = flushedCr \o spaces(n)
        /\ inByte \notin {LF, CR, TAB} => added = flushedCr \o <<inByte>>

C3_Counts ==
    (pc = "done" /\ lf /\ ~trim) =>
        /\ count(out, LF) = count(fileContents, LF)
        /\ count(out, CR) = Cardinality(crNotBeforeLf(fileContents))

C3_LfMode ==
    /\ []C3_Counts
    /\ [][C3_Step]_vars

C3_Witness ==
    /\ pc = "done"
    /\ lf
    /\ ~trim
    /\ fileContents = <<CR, LF, CR, DOT>>
    /\ out = <<LF, CR, DOT>>

(***************************************************************************)
(* C4: in CrLf mode, trimming on or off, every LF of the output is         *)
(* immediately preceded by a CR; with trimming off a CR is inserted        *)
(* exactly before the input LFs not preceded by a CR and every input CR is *)
(* emitted unchanged, so the output is the input with tabs expanded plus   *)
(* those inserted CRs.                                                     *)
(***************************************************************************)
C4_LfAfterCr ==
    crlf => \A i \in DOMAIN out : out[i] = LF => i > 1 /\ out[i - 1] = CR

C4_Step ==
    (consuming /\ crlf /\ ~trim) =>
        /\ read' = read + 1
        /\ extends
        /\ inByte = LF => added = (IF prevIsCr THEN <<LF>> ELSE <<CR, LF>>)
        /\ inByte = TAB => isTabExpansion(added)
        /\ inByte \notin {LF, TAB} => added = <<inByte>>

C4_CrLfMode ==
    /\ []C4_LfAfterCr
    /\ [][C4_Step]_vars

C4_Witness ==
    /\ pc = "done"
    /\ crlf
    /\ ~trim
    /\ fileContents = <<DOT, LF, CR, LF>>
    /\ out = <<DOT, CR, LF, CR, LF>>

(***************************************************************************)
(* C5: in Ignore mode with trimming off the output is the input with only  *)
(* the tab bytes replaced by spaces: every other byte (CR, LF and NUL      *)
(* included) is emitted unchanged, once and in order, so an input without  *)
(* a tab is returned unchanged.                                            *)
(***************************************************************************)
C5_Step ==
    (consuming /\ lineEndingMode = "Ignore" /\ ~trim) =>
        /\ read' = read + 1
        /\ extends
        /\ inByte = TAB => isTabExpansion(added)
        /\ inByte # TAB => added = <<inByte>>

C5_NoTabUnchanged ==
    (pc = "done" /\ lineEndingMode = "Ignore" /\ ~trim /\ count(fileContents, TAB) = 0) =>
        out = fileContents

C5_IgnoreMode ==
    /\ []C5_NoTabUnchanged
    /\ [][C5_Step]_vars

C5_Witness ==
    /\ pc = "done"
    /\ lineEndingMode = "Ignore"
    /\ ~trim
    /\ fileContents = <<CR, LF, NUL, CR>>
    /\ out = fileContents

(***************************************************************************)
(* C6: with trimming on, in every mode, the output never holds a space or  *)
(* tab immediately followed by LF, nor one immediately followed by the     *)
(* pair CR LF.                                                             *)
(***************************************************************************)
C6_NoWhitespaceBeforeNewline ==
    trim =>
        \A i \in DOMAIN out :
            out[i] \in {SPACE, TAB} =>
                /\ ~(i + 1 <= Len(out) /\ out[i + 1] = LF)
                /\ ~(i + 2 <= Len(out) /\ out[i + 1] = CR /\ out[i + 2] = LF)

C6_Witness ==
    /\ pc = "done"
    /\ trim
    /\ fileContents = <<DOT, SPACE, CR, LF>>
    /\ out \in {<<DOT, CR, LF>>, <<DOT, LF>>}
(***************************************************************************)
(* C7: in Ignore mode with trimming on the LFs of input and output         *)
(* correspond one to one in order, and each LF is immediately preceded by  *)
(* a CR in the output if and only if it is in the input.                   *)
(***************************************************************************)
nthLf(s, k) == CHOOSE i \in DOMAIN s : s[i] = LF /\ count(SubSeq(s, 1, i), LF) = k
crBefore(s, i) == i > 1 /\ s[i - 1] = CR

C7_TerminatorShapeKept ==
    (pc = "done" /\ lineEndingMode = "Ignore" /\ trim) =>
        /\ count(out, LF) = count(fileContents, LF)
        /\ \A k \in 1..count(fileContents, LF) :
               crBefore(out, nthLf(out, k)) <=> crBefore(fileContents, nthLf(fileContents, k))

C9_TrailingCrFlushed ==
    (pc = "done" /\ lf /\ ~trim /\ Len(fileContents) > 0 /\ fileContents[Len(fileContents)] = CR) =>
        /\ Len(out) > 0
        /\ out[Len(out)] = CR
        /\ count(out, CR) =
               Cardinality({i \in DOMAIN fileContents :
                               /\ fileContents[i] = CR
                               /\ ~(i < Len(fileContents) /\ fileContents[i + 1] = LF)})

(***************************************************************************)
(* C10: with trimming on, a run of spaces, tabs and CRs that reaches the   *)
(* end of the input without an LF is not trimmed: newlineProbe reports     *)
(* 'no trim' and the triggering byte is handled normally, so an input      *)
(* ending in spaces keeps them.                                            *)
(***************************************************************************)
runToEnd(from) == \A i \in (from + 1)..Len(fileContents) : fileContents[i] \in {SPACE, TAB, CR}

atRunToEnd == consuming /\ trim /\ inByte \in {SPACE, TAB} /\ runToEnd(read)

endsWithBlank(s) == Len(s) > 0 /\ s[Len(s)] \in {SPACE, TAB}

C10_RunAtEndKept ==
    /\ atRunToEnd => newlineProbe(fileContents, read, lineEndingMode) = nullptr
    /\ (pc = "done" /\ trim /\ endsWithBlank(fileContents)) => endsWithBlank(out)

\* C10 as amended: such a run is trimmed whole. newlineProbe returns the end
\* of the buffer, the caller jumps there without writing, and the output
\* never ends with a space or tab.
C10_RunAtEndStep ==
    atRunToEnd => read' = Len(fileContents) /\ out' = out

C10_RunAtEndTrimmed ==
    /\ [](atRunToEnd => newlineProbe(fileContents, read, lineEndingMode) = Len(fileContents))
    /\ []((pc = "done" /\ trim) => ~endsWithBlank(out))
    /\ [][C10_RunAtEndStep]_vars

C10_Witness ==
    /\ pc = "done"
    /\ trim
    /\ fileContents = <<DOT, SPACE, CR, TAB>>
    /\ out = <<DOT>>
(***************************************************************************)
(* processOneFile: load, transform, compare, write the temporary file,     *)
(* rename it over the original.  The call of tabsToSpaces is the state     *)
(* machine above; the file system decides whether a load, an open, a write *)
(* or a rename succeeds.                                                   *)
(***************************************************************************)
FileInit ==
    /\ NoMainInit
    /\ NoPatternInit
    /\ disk \in SeqsUpTo(MaxFileLen)
    /\ tmp = noFile
    /\ stream = FALSE
    /\ fpc = "load"
    /\ tabWidth \in 0..MaxTabWidth
    /\ lineEndingMode \in LineEndingMode
    /\ whitespaceBeforeNewLines \in WhitespaceBeforeNewLines
    /\ fileContents = <<>>
    /\ pc = "idle"
    /\ outputSize = 0
    /\ out = <<>>
    /\ read = 0
    /\ column = 0
    /\ hasCr = FALSE

\* auto input = loadFileToString(filename); then tabsToSpaces is called
Load ==
    /\ fpc = "load"
    /\ fileContents' = disk
    /\ pc' = "call"
    /\ fpc' = "transform"
    /\ UNCHANGED <<config, outputSize, out, read, column, hasCr, disk, tmp, stream, mainVars, patternVars>>

\* loadFileToString throws: fs::file_size fails, or the file does not open
LoadFails ==
    /\ fpc = "load"
    /\ fpc' = "failed"
    /\ UNCHANGED <<fileContents, config, pc, outputSize, out, read, column, hasCr, disk, tmp, stream, mainVars, patternVars>>

\* tabsToSpaces threw: the exception leaves processOneFile
TransformFails ==
    /\ fpc = "transform"
    /\ pc = "threw"
    /\ fpc' = "failed"
    /\ UNCHANGED <<fileContents, config, pc, outputSize, out, read, column, hasCr, disk, tmp, stream, mainVars, patternVars>>

\* if (input != output) is false
SameBytes ==
    /\ fpc = "transform"
    /\ pc = "done"
    /\ ~(fileContents # out)
    /\ fpc' = "returned"
    /\ UNCHANGED <<fileContents, config, pc, outputSize, out, read, column, hasCr, disk, tmp, stream, mainVars, patternVars>>

OtherBytesAlways ==
    /\ fpc = "transform"
    /\ pc = "done"
    /\ fileContents' = <<>>
    /\ fpc' = "open"
    /\ UNCHANGED <<config, pc, outputSize, out, read, column, hasCr, disk, tmp, stream, mainVars, patternVars>>

\* if (input != output) { input = std::string{}; outputName = filename + ".tabs2spaces.tmp";
OtherBytes ==
    /\ fpc = "transform"
    /\ pc = "done"
    /\ fileContents # out
    /\ fileContents' = <<>>
    /\ fpc' = "open"
    /\ UNCHANGED <<config, pc, outputSize, out, read, column, hasCr, disk, tmp, stream, mainVars, patternVars>>

\* std::ofstream file(outputName, std::ios::binary): the file is created empty
Open ==
    /\ fpc = "open"
    /\ tmp' = [exists |-> TRUE, bytes |-> <<>>]
    /\ stream' = TRUE
    /\ fpc' = "write"
    /\ UNCHANGED <<fileContents, config, pc, outputSize, out, read, column, hasCr, disk, mainVars, patternVars>>

\* the file cannot be created: the stream is not open, nothing is thrown
OpenFails ==
    /\ fpc = "open"
    /\ stream' = FALSE
    /\ fpc' = "write"
    /\ UNCHANGED <<fileContents, config, pc, outputSize, out, read, column, hasCr, disk, tmp, mainVars, patternVars>>

\* file.write(output.data(), output.size()); file.close(); output = std::string{};
\* A write on a good stream stores the first n bytes; n < output.size() when
\* the device fails or fills up, which sets badbit and throws nothing.
WriteAndClose ==
    /\ fpc = "write"
    /\ \E n \in 0..Len(out) :
           tmp' = IF stream THEN [exists |-> TRUE, bytes |-> SubSeq(out, 1, n)] ELSE tmp
    /\ stream' = FALSE
    /\ out' = <<>>
    /\ fpc' = "rename"
    /\ UNCHANGED <<fileContents, config, pc, outputSize, read, column, hasCr, disk, mainVars, patternVars>>

\* fs::rename(outputName, filename)
Rename ==
    /\ fpc = "rename"
    /\ tmp.exists
    /\ disk' = tmp.bytes
    /\ tmp' = noFile
    /\ fpc' = "returned"
    /\ UNCHANGED <<fileContents, config, pc, outputSize, out, read, column, hasCr, stream, mainVars, patternVars>>

\* fs::rename throws filesystem_error: always when the temporary file does
\* not exist, possibly otherwise
RenameFails ==
    /\ fpc = "rename"
    /\ fpc' = "failed"
    /\ UNCHANGED <<fileContents, config, pc, outputSize, out, read, column, hasCr, disk, tmp, stream, mainVars, patternVars>>

FileNext ==
    \/ Load
    \/ LoadFails
    \/ InvalidArgument
    \/ Begin
    \/ TabCase
    \/ NewlineCase
    \/ DefaultCase
    \/ Return
    \/ TransformFails
    \/ SameBytes
    \/ OtherBytes
    \/ Open
    \/ OpenFails
    \/ WriteAndClose
    \/ Rename
    \/ RenameFails

FileSpec == FileInit /\ [][FileNext]_vars

(***************************************************************************)
(* C12: in processOneFile, when the transformed bytes equal the bytes read *)
(* no write happens at all: no temporary file, no rename, the original is  *)
(* untouched; a temporary file is created and renamed only when the output *)
(* differs from the input.                                                 *)
(***************************************************************************)
transformed(bytes) == tabsToSpaces(bytes, tabWidth, lineEndingMode, trim)

writing == fpc \in {"open", "write", "rename"}

C12_Step ==
    (fpc # "none" /\ tabWidth >= 1 /\ transformed(disk) = disk) =>
        (disk' = disk /\ tmp' = noFile /\ fpc' \notin {"open", "write", "rename"})

C12_NoOpNoWrite ==
    /\ []((writing \/ tmp.exists) => tabWidth >= 1 /\ transformed(disk) # disk)
    /\ []((fpc = "returned" /\ fileContents = out /\ Len(out) > 0) => disk = out /\ tmp = noFile)
    /\ [][C12_Step]_vars

C12_Witness ==
    /\ fpc = "returned"
    /\ disk = <<DOT, LF>>
    /\ fileContents = disk
    /\ out = disk
    /\ tmp = noFile

(***************************************************************************)
(* C13: in processOneFile the rename is the sole publishing step: in every *)
(* reachable state, also when opening or writing the temporary file fails  *)
(* or is partly done, the original name holds the complete original or the *)
(* complete transformed output, and the rename happens only after the      *)
(* temporary file holds the whole output and is closed.                    *)
(***************************************************************************)
C13_Step ==
    /\ disk' # disk => disk' = transformed(disk)
    /\ (fpc = "rename" /\ fpc' = "returned") =>
           (tmp.exists /\ ~stream /\ tmp.bytes = transformed(disk))

C13_RenameSolePublish == [][C13_Step]_vars

(***************************************************************************)
(* main: the loop over the command-line arguments.  Arguments are          *)
(* sequences of characters.  What tabsToSpaces(path, config) does with the *)
(* files is left to the file system: the call returns or throws.           *)
(***************************************************************************)
MaxArgs == 3

lfParam == <<"-", "-", "l", "f">>
crlfParam == <<"-", "-", "c", "r", "l", "f">>
trimParam == <<"-", "-", "t", "r", "i", "m">>
noTrimParam == <<"-", "-", "n", "o", "t", "r", "i", "m">>
recParam == <<"-", "-", "r", "e", "c">>
noRecParam == <<"-", "-", "n", "o", "r", "e", "c">>
widthParam == <<<<"-", "w", ":">>, <<"-", "-", "w", "i", "d", "t", "h", "=">>>>

\* The arguments of the model: the six switches, width arguments whose text
\* is a number, empty, a number followed by a letter, a negative number and a
\* number beyond int, and a path.
Args ==
    {lfParam, crlfParam, trimParam, noTrimParam, recParam, noRecParam,
     widthParam[1] \o <<"8">>, widthParam[1], widthParam[2] \o <<"2", "x">>,
     widthParam[2] \o <<"-", "1">>,
     widthParam[1] \o <<"9", "9", "9", "9", "9", "9", "9", "9", "9", "9">>, <<"a">>}

RECURSIVE ArgLists(_)
ArgLists(n) ==
    IF n = 0 THEN {<<>>}
    ELSE LET shorter == ArgLists(n - 1)
         IN  shorter \cup {Append(l, a) : l \in {t \in shorter : Len(t) = n - 1}, a \in Args}

\* std::string_view::starts_with
startsWith(a, prefix) == Len(a) >= Len(prefix) /\ SubSeq(a, 1, Len(prefix)) = prefix

\* std::string_view::substr(pos)
substr(a, pos) == SubSeq(a, pos + 1, Len(a))

digits == <<"0", "1", "2", "3", "4", "5", "6", "7", "8", "9">>
isDigit(c) == \E d \in DOMAIN digits : digits[d] = c
digitValue(c) == (CHOOSE d \in DOMAIN digits : digits[d] = c) - 1

RECURSIVE digitRun(_, _)
digitRun(text, from) ==
    IF from <= Len(text) /\ isDigit(text[from]) THEN digitRun(text, from + 1) ELSE from - 1

\* The range of int, the type std::stoi returns.
intMax == 2147483647
intMin == (0 - intMax) - 1
outOfRange == intMax

\* The digits text[from..to] as a number, negated so that the whole range of
\* int is met; outOfRange, which no negated number is, below intMin.
RECURSIVE negated(_, _, _)
negated(text, from, to) ==
    IF to < from THEN 0
    ELSE LET head == negated(text, from, to - 1)
             d    == digitValue(text[to])
         IN  IF head = outOfRange \/ head < (intMin + d + 9) \div 10
             THEN outOfRange
             ELSE head * 10 - d

RECURSIVE blanks(_, _)
blanks(text, from) ==
    IF from <= Len(text) /\ text[from] = " " THEN blanks(text, from + 1) ELSE from

\* std::stoi: leading blanks, an optional sign, the longest run of digits;
\* invalid_argument without a digit, out_of_range beyond int.
stoi(text) ==
    LET start  == blanks(text, 1)
        signed == start <= Len(text) /\ text[start] \in {"-", "+"}
        minus  == signed /\ text[start] = "-"
        first  == IF signed THEN start + 1 ELSE start
        last   == digitRun(text, first)
        below  == negated(text, first, last)
    IN  IF last < first \/ below = outOfRange \/ (~minus /\ below = intMin)
        THEN [threw |-> TRUE, value |-> 0]
        ELSE [threw |-> FALSE, value |-> IF minus THEN below ELSE 0 - below]

mainConfig ==
    [tabWidth |-> tabWidth, lineEndingMode |-> lineEndingMode,
     whitespaceBeforeNewLines |-> whitespaceBeforeNewLines, directoryWalk |-> directoryWalk]

\* DirectoryWalk::OneLevel, DirectoryWalk::Nested
DirectoryWalk == {"OneLevel", "Nested"}

\* The walk a Config starts with: --norec is the default option.
defaultDirectoryWalk == "OneLevel"

\* Config config;
defaultConfig ==
    [tabWidth |-> 4, lineEndingMode |-> "Ignore",
     whitespaceBeforeNewLines |-> "DoNotTrim", directoryWalk |-> defaultDirectoryWalk]

isSwitch(arg) == arg \in {lfParam, crlfParam, trimParam, noTrimParam, recParam, noRecParam}
isWidth(arg) == ~isSwitch(arg) /\ (startsWith(arg, widthParam[1]) \/ startsWith(arg, widthParam[2]))

switchedFirstWins(cfg, arg) ==
    CASE arg = lfParam     -> [cfg EXCEPT !.lineEndingMode = IF @ = "Ignore" THEN "Lf" ELSE @]
      [] arg = crlfParam   -> [cfg EXCEPT !.lineEndingMode = IF @ = "Ignore" THEN "CrLf" ELSE @]
      [] arg = trimParam   -> [cfg EXCEPT !.whitespaceBeforeNewLines = "Trim"]
      [] arg = noTrimParam -> [cfg EXCEPT !.whitespaceBeforeNewLines = "DoNotTrim"]
      [] arg = recParam    -> [cfg EXCEPT !.directoryWalk = "Nested"]
      [] arg = noRecParam  -> [cfg EXCEPT !.directoryWalk = "OneLevel"]

\* The six switches of the if-else chain.
switched(cfg, arg) ==
    CASE arg = lfParam     -> [cfg EXCEPT !.lineEndingMode = "Lf"]
      [] arg = crlfParam   -> [cfg EXCEPT !.lineEndingMode = "CrLf"]
      [] arg = trimParam   -> [cfg EXCEPT !.whitespaceBeforeNewLines = "Trim"]
      [] arg = noTrimParam -> [cfg EXCEPT !.whitespaceBeforeNewLines = "DoNotTrim"]
      [] arg = recParam    -> [cfg EXCEPT !.directoryWalk = "Nested"]
      [] arg = noRecParam  -> [cfg EXCEPT !.directoryWalk = "OneLevel"]

\* The text after the width prefix the argument starts with.
widthText(arg) ==
    IF startsWith(arg, widthParam[1])
    THEN substr(arg, Len(widthParam[1]))
    ELSE substr(arg, Len(widthParam[2]))

\* What the three catch clauses tell apart; each runs errorPrologue.
Raised == {"filesystem_error", "exception", "unknown"}

\* errorPrologue: ++errors
counted(raised) == IF raised \in Raised THEN 1 ELSE 0

SetConfig(cfg) ==
    /\ tabWidth' = cfg.tabWidth
    /\ lineEndingMode' = cfg.lineEndingMode
    /\ whitespaceBeforeNewLines' = cfg.whitespaceBeforeNewLines
    /\ directoryWalk' = cfg.directoryWalk

\* The end of one iteration of the loop over the arguments.
Handled(kind, raised) ==
    /\ handled' = Append(handled, [index |-> argi, kind |-> kind, raised |-> raised,
                                   config |-> mainConfig])
    /\ errors' = errors + counted(raised)
    /\ argi' = argi + 1
    /\ UNCHANGED <<argv, mpc, callVars, fileVars, patternVars>>

MainInit ==
    /\ NoFileInit
    /\ NoPatternInit
    /\ argv \in ArgLists(MaxArgs)
    /\ argi = 1
    /\ errors = 0
    /\ tabWidth = defaultConfig.tabWidth
    /\ lineEndingMode = defaultConfig.lineEndingMode
    /\ whitespaceBeforeNewLines = defaultConfig.whitespaceBeforeNewLines
    /\ directoryWalk = defaultConfig.directoryWalk
    /\ handled = <<>>
    /\ mpc = "loop"
    /\ fileContents = <<>>
    /\ pc = "idle"
    /\ outputSize = 0
    /\ out = <<>>
    /\ read = 0
    /\ column = 0
    /\ hasCr = FALSE

\* arg == lfParam ... arg == noRecParam
Switch ==
    /\ mpc = "loop"
    /\ argi <= Len(argv)
    /\ isSwitch(argv[argi])
    /\ SetConfig(switched(mainConfig, argv[argi]))
    /\ Handled("switch", "none")

\* arg.starts_with(widthParam[0]) or arg.starts_with(widthParam[1]), std::stoi returns
Width ==
    /\ mpc = "loop"
    /\ argi <= Len(argv)
    /\ isWidth(argv[argi])
    /\ ~stoi(widthText(argv[argi])).threw
    /\ SetConfig([mainConfig EXCEPT !.tabWidth = stoi(widthText(argv[argi])).value])
    /\ Handled("width", "none")

\* std::stoi throws before config.tabWidth is assigned; catch (std::exception const&)
WidthThrows ==
    /\ mpc = "loop"
    /\ argi <= Len(argv)
    /\ isWidth(argv[argi])
    /\ stoi(widthText(argv[argi])).threw
    /\ SetConfig(mainConfig)
    /\ Handled("width", "exception")

PathStops ==
    /\ mpc = "loop"
    /\ argi <= Len(argv)
    /\ ~isSwitch(argv[argi])
    /\ ~isWidth(argv[argi])
    /\ SetConfig(mainConfig)
    /\ \E raised \in Raised \cup {"none"} :
           /\ handled' = Append(handled, [index |-> argi, kind |-> "path", raised |-> raised,
                                          config |-> mainConfig])
           /\ errors' = errors + counted(raised)
           /\ argi' = IF raised = "none" THEN argi + 1 ELSE Len(argv) + 1
    /\ UNCHANGED <<argv, mpc, callVars, fileVars, patternVars>>

\* tabsToSpaces(std::filesystem::path{argv[i]}, config), returning or caught
Path ==
    /\ mpc = "loop"
    /\ argi <= Len(argv)
    /\ ~isSwitch(argv[argi])
    /\ ~isWidth(argv[argi])
    /\ SetConfig(mainConfig)
    /\ \E raised \in Raised \cup {"none"} : Handled("path", raised)

\* return errors;
Exit ==
    /\ mpc = "loop"
    /\ ~(argi <= Len(argv))
    /\ mpc' = "exited"
    /\ UNCHANGED <<argv, argi, errors, handled, config, directoryWalk, callVars, fileVars, patternVars>>

MainNext ==
    \/ Switch
    \/ Width
    \/ WidthThrows
    \/ Path
    \/ Exit

MainSpec == MainInit /\ [][MainNext]_vars

(***************************************************************************)
(* C14: main handles every argument in order whatever failed before, and   *)
(* the exit status is the number of arguments whose handling raised an     *)
(* error, 0 when none did.                                                 *)
(***************************************************************************)
raisedAt == {k \in DOMAIN handled : handled[k].raised # "none"}

C14_Step ==
    (mpc = "loop" /\ argi <= Len(argv)) =>
        (argi' = argi + 1 /\ Len(handled') = argi /\ handled'[argi].index = argi)

C14_ExitStatus ==
    /\ [](mpc = "exited" =>
              /\ Len(handled) = Len(argv)
              /\ \A k \in DOMAIN handled : handled[k].index = k
              /\ errors = Cardinality(raisedAt))
    /\ [][C14_Step]_vars

C14_Witness ==
    /\ mpc = "exited"
    /\ Len(argv) = 3
    /\ errors = 2
    /\ raisedAt = {1, 2}
    /\ handled[1].raised = "unknown"
    /\ handled[3].kind = "path"

(***************************************************************************)
(* C19: each path argument is processed with the configuration built from  *)
(* the flags before it, a later flag of a kind overriding an earlier one   *)
(* and the defaults being width 4, Ignore, no trimming and one level; what *)
(* was handled is not touched by later arguments; a width argument whose   *)
(* number does not parse leaves the configuration as it was.               *)
(***************************************************************************)
\* The width arguments of Args that carry a number, with that number.
widthGiven ==
    {<<widthParam[1] \o <<"8">>, 8>>,
     <<widthParam[2] \o <<"2", "x">>, 2>>,
     <<widthParam[2] \o <<"-", "1">>, -1>>}

\* The last position before k whose argument is in the set, 0 without one.
lastOf(set, k) ==
    LET at == {j \in 1..(k - 1) : argv[j] \in set}
    IN  IF at = {} THEN 0 ELSE CHOOSE j \in at : \A other \in at : other <= j

built(k) ==
    LET ending == lastOf({lfParam, crlfParam}, k)
        trims  == lastOf({trimParam, noTrimParam}, k)
        walk   == lastOf({recParam, noRecParam}, k)
        width  == lastOf({g[1] : g \in widthGiven}, k)
    IN  [tabWidth |-> IF width = 0 THEN 4
                      ELSE (CHOOSE g \in widthGiven : g[1] = argv[width])[2],
         lineEndingMode |-> IF ending = 0 THEN "Ignore"
                            ELSE IF argv[ending] = lfParam THEN "Lf" ELSE "CrLf",
         whitespaceBeforeNewLines |-> IF trims = 0 THEN "DoNotTrim"
                                      ELSE IF argv[trims] = trimParam THEN "Trim" ELSE "DoNotTrim",
         directoryWalk |-> IF walk = 0 THEN "OneLevel"
                           ELSE IF argv[walk] = recParam THEN "Nested" ELSE "OneLevel"]

C19_Step ==
    /\ \A k \in DOMAIN handled : k \in DOMAIN handled' /\ handled'[k] = handled[k]
    /\ \A k \in DOMAIN handled' :
           (k \notin DOMAIN handled /\ handled'[k].kind = "width" /\ handled'[k].raised # "none")
               => mainConfig' = mainConfig

C19_ConfigInArgumentOrder ==
    /\ [](\A k \in DOMAIN handled : handled[k].kind = "path" => handled[k].config = built(k))
    /\ [][C19_Step]_vars

C19_Witness ==
    /\ mpc = "exited"
    /\ argv = <<widthParam[1] \o <<"8">>, widthParam[1], <<"a">>>>
    /\ handled[2].raised = "exception"
    /\ handled[3].kind = "path"
    /\ handled[3].config.tabWidth = 8

(***************************************************************************)
(* tabsToSpaces(path, config): the file-name pattern of the path, its      *)
(* translation to a basic regular expression and the test of one           *)
(* directory entry against it.  File names are sequences of characters.    *)
(***************************************************************************)
MaxPatternLen == 3
MaxNameLen == 2

PatternChars == {"a", ".", "*", "?", "$"}
NameChars == {"a", ".", "$"}

RECURSIVE Strings(_, _)
Strings(chars, n) ==
    IF n = 0 THEN {<<>>}
    ELSE LET shorter == Strings(chars, n - 1)
         IN  shorter \cup {Append(t, c) : t \in {u \in shorter : Len(u) = n - 1}, c \in chars}

\* path.find_first_of("*?") != npos
detectRegexPath(path) == \E i \in DOMAIN path : path[i] \in {"*", "?"}

\* The switch over one character of the path.
convertCh(ch) ==
    CASE ch = "." -> <<"\\", ".">>
      [] ch = "*" -> <<".", "*">>
      [] ch = "?" -> <<".">>
      [] OTHER    -> <<ch>>

RECURSIVE convertRegexString(_)
convertRegexString(path) ==
    IF path = <<>> THEN <<>>
    ELSE convertCh(Head(path)) \o convertRegexString(Tail(path))

\* The basic grammar: a backslash and a character match that character, a dot
\* matches any character, an atom followed by a star matches any number of
\* times, a $ that ends the expression matches the end of the name; a $
\* elsewhere is an ordinary character by POSIX and an anchor in the libraries
\* that take it as one wherever it stands (inside).
RECURSIVE regexFrom(_, _, _, _, _)
regexFrom(re, i, name, j, inside) ==
    IF i > Len(re) THEN j > Len(name)
    ELSE IF re[i] = "$" /\ (i = Len(re) \/ inside)
    THEN j > Len(name) /\ regexFrom(re, i + 1, name, j, inside)
    ELSE LET escaped == re[i] = "\\" /\ i < Len(re)
             width   == IF escaped THEN 2 ELSE 1
             one     == j <= Len(name) /\
                        IF escaped THEN name[j] = re[i + 1]
                        ELSE re[i] = "." \/ name[j] = re[i]
             starred == i + width <= Len(re) /\ re[i + width] = "*"
         IN  IF starred
             THEN \/ regexFrom(re, i + width + 1, name, j, inside)
                  \/ one /\ regexFrom(re, i, name, j + 1, inside)
             ELSE one /\ regexFrom(re, i + width, name, j + 1, inside)

\* std::regex_match(name, std::basic_regex(re, basic))
regex_match(name, re, inside) == regexFrom(re, 1, name, 1, inside)

PatternInit ==
    /\ NoFileInit
    /\ NoMainInit
    /\ pattern \in Strings(PatternChars, MaxPatternLen) \ {<<>>}
    /\ entry \in [name : Strings(NameChars, MaxNameLen) \ {<<>>, <<".">>, <<".", ".">>},
                   regular : BOOLEAN]
    /\ regexString = <<>>
    /\ selected = FALSE
    /\ anchorInside \in BOOLEAN
    /\ gpc = "detect"
    /\ tabWidth = 4
    /\ lineEndingMode = "Ignore"
    /\ whitespaceBeforeNewLines = "DoNotTrim"
    /\ fileContents = <<>>
    /\ pc = "idle"
    /\ outputSize = 0
    /\ out = <<>>
    /\ read = 0
    /\ column = 0
    /\ hasCr = FALSE

\* !detectRegexPath(filename): processOneFile(path, config), the file the path names
OneFile ==
    /\ gpc = "detect"
    /\ ~detectRegexPath(pattern)
    /\ selected' = (entry.name = pattern)
    /\ gpc' = "done"
    /\ UNCHANGED <<pattern, entry, regexString, anchorInside, config, callVars, fileVars, mainVars>>

\* filenameRegex(convertRegexString(filename.native()), basic | optimize)
Convert ==
    /\ gpc = "detect"
    /\ detectRegexPath(pattern)
    /\ regexString' = convertRegexString(pattern)
    /\ gpc' = "walk"
    /\ UNCHANGED <<pattern, entry, selected, anchorInside, config, callVars, fileVars, mainVars>>

\* fileCond(e), and fileProcess(e) where it holds
Test ==
    /\ gpc = "walk"
    /\ selected' = (entry.regular /\ regex_match(entry.name, regexString, anchorInside))
    /\ gpc' = "done"
    /\ UNCHANGED <<pattern, entry, regexString, anchorInside, config, callVars, fileVars, mainVars>>

PatternNext ==
    \/ OneFile
    \/ Convert
    \/ Test

PatternSpec == PatternInit /\ [][PatternNext]_vars

(***************************************************************************)
(* C20: a regular file is selected if and only if its name matches the     *)
(* wildcard pattern, where * stands for any number of characters, ? for    *)
(* exactly one, and every other character of the pattern for itself.       *)
(***************************************************************************)
RECURSIVE wildcardFrom(_, _, _, _)
wildcardFrom(pat, i, name, j) ==
    IF i > Len(pat) THEN j > Len(name)
    ELSE IF pat[i] = "*"
    THEN \/ wildcardFrom(pat, i + 1, name, j)
         \/ j <= Len(name) /\ wildcardFrom(pat, i, name, j + 1)
    ELSE /\ j <= Len(name)
         /\ pat[i] = "?" \/ pat[i] = name[j]
         /\ wildcardFrom(pat, i + 1, name, j + 1)

wildcard(pat, name) == wildcardFrom(pat, 1, name, 1)

C20_SelectedIffWildcard ==
    (gpc = "done" /\ entry.regular) => (selected <=> wildcard(pattern, entry.name))

(***************************************************************************)
(* C11: with tabWidth < 1 the call fails with the invalid-configuration    *)
(* error for every input and mode, before the output buffer is created or  *)
(* any input byte is read, with no partial output; it is the only error.   *)
(***************************************************************************)
C11_Step ==
    (pc = "call" /\ tabWidth < 1) => (pc' = "threw" /\ out' = <<>> /\ read' = 0 /\ outputSize' = 0)

C11_InvalidConfiguration ==
    /\ [](tabWidth < 1 => pc \in {"call", "threw"} /\ out = <<>> /\ read = 0 /\ outputSize = 0)
    /\ [](pc = "threw" => tabWidth < 1)
    /\ [][C11_Step]_vars

C11_Witness ==
    /\ pc = "threw"
    /\ tabWidth = 0
    /\ fileContents = <<TAB, DOT>>
    /\ out = <<>>

(***************************************************************************)
(* C15: in Lf mode, trimming on or off, at the start of every iteration of *)
(* the main loop hasCr is true if and only if the immediately preceding    *)
(* input byte is a CR whose output byte has not yet been written.          *)
(***************************************************************************)
C15_PendingCrIsPreviousByte ==
    (consuming /\ lf) => (hasCr <=> prevIsCr)

\* CRs of the consumed input that a pass without trimming has written: those
\* followed by a consumed byte other than LF.
crWritten == {i \in 1..(read - 1) : fileContents[i] = CR /\ fileContents[i + 1] # LF}

\* The iteration skipped a trimmed run: it consumed a space or tab and wrote
\* nothing.
skipped == consuming /\ inByte \in {SPACE, TAB} /\ out' = out

\* C15 as amended: hasCr is false at the start, stays as it is over a
\* trimmed run and is otherwise true exactly after a consumed CR; so with
\* trimming off it is true if and only if the immediately preceding input
\* byte is a CR, and that CR is not yet written.
C15_Step ==
    (consuming /\ lf) =>
        /\ skipped => trim /\ hasCr' = hasCr
        /\ ~skipped => hasCr' = (inByte = CR)

C15_PendingCr ==
    /\ []((pc = "loop" /\ read = 0) => ~hasCr)
    /\ []((pc = "loop" /\ lf /\ ~trim) =>
              /\ hasCr <=> prevIsCr
              /\ count(out, CR) = Cardinality(crWritten))
    /\ [][C15_Step]_vars

C15_Witness ==
    /\ pc = "loop"
    /\ lf
    /\ trim
    /\ fileContents = <<CR, SPACE, LF>>
    /\ read = 2
    /\ hasCr
    /\ out = <<>>

(***************************************************************************)
(* C16: at the start of every iteration 0 <= column < tabWidth, and column *)
(* is the number of bytes written since the last written LF that are       *)
(* neither CR nor NUL, modulo tabWidth, also across trimmed runs and       *)
(* across a CR withheld in Lf mode.                                        *)
(***************************************************************************)
C16_Column ==
    pc = "loop" =>
        /\ 0 <= column
        /\ column < tabWidth
        /\ column = visibleSinceLf(out) % tabWidth

C16_Witness ==
    /\ pc = "loop"
    /\ lf
    /\ trim
    /\ tabWidth = 2
    /\ fileContents = <<DOT, NUL, CR, SPACE>>
    /\ read = 4
    /\ hasCr
    /\ column = 1

(***************************************************************************)
(* C17: the pass terminates and never reads outside the input: every       *)
(* iteration strictly advances the read cursor, a successful probe from p  *)
(* returns q with p < q <= end, a failed probe consumes nothing, and the   *)
(* loop ends with read = readEnd.                                          *)
(***************************************************************************)
C17_Probe ==
    (consuming /\ inByte \in {SPACE, TAB}) =>
        LET q == newlineProbe(fileContents, read, lineEndingMode)
        IN  q = nullptr \/ (read < q /\ q <= Len(fileContents))

C17_Step ==
    consuming =>
        /\ read < read'
        /\ read' <= Len(fileContents)
        /\ (inByte \in {SPACE, TAB} /\ newlineProbe(fileContents, read, lineEndingMode) = nullptr) =>
               read' = read + 1

C17_Terminates ==
    /\ [](pc \in {"loop", "done"} => read \in 0..Len(fileContents))
    /\ [](pc = "done" => read = Len(fileContents))
    /\ []C17_Probe
    /\ [][C17_Step]_vars
    /\ <>(pc \in {"done", "threw"})

C17_Witness ==
    /\ pc = "done"
    /\ trim
    /\ lineEndingMode = "Ignore"
    /\ fileContents = <<SPACE, CR, LF>>
    /\ read = 3
    /\ out = <<CR, LF>>

(***************************************************************************)
(* C18: for every input and valid configuration the output bytes that are  *)
(* not space, tab, CR or LF are the same subsequence as in the input, and  *)
(* the output has as many LF bytes as the input.                           *)
(***************************************************************************)
isContent(b) == b \notin {SPACE, TAB, CR, LF}

C18_ContentKept ==
    pc = "done" =>
        /\ SelectSeq(out, isContent) = SelectSeq(fileContents, isContent)
        /\ count(out, LF) = count(fileContents, LF)

C18_Witness ==
    /\ pc = "done"
    /\ trim
    /\ lf
    /\ fileContents = <<NUL, TAB, LF, DOT>>
    /\ out = <<NUL, LF, DOT>>
====
